---- MODULE Spec2Model ----
(***************************************************************************)
(* Model of the Inzo staking dashboard (src/src/components/                *)
(* AnimatedNumber.js): the StakingCard panel (contract initialisation,     *)
(* polling read cycles, the handleTx write action, the status label and    *)
(* its auto-clear timeout) and the AnimatedNumber tween slot.              *)
(*                                                                         *)
(* Strings the code parses are sequences of one-character strings, amounts *)
(* in wei are sequences of decimal digits (BigInt has no width), and the   *)
(* JavaScript numbers the panel shows are exact decimals                   *)
(* [neg, int, frac].  One action is one turn of the JavaScript event loop: *)
(* an event handler or a promise continuation runs from its start to its   *)
(* next await, and React commits the state it set before the next event,   *)
(* so a button is enabled exactly when its disabled prop, computed from    *)
(* the component state, is false.  External promises (contract queries,    *)
(* submissions, confirmations) settle in any order and either way.         *)
(***************************************************************************)
EXTENDS Integers, Sequences, FiniteSets, TLC

(***************************************************************************)
(* Bounds of the model                                                     *)
(***************************************************************************)
\* timer-driven read cycles that may be in flight together
MaxCycles == 1
\* success auto-clear timeouts that may be pending together
MaxPendingClears == 2
\* animation frames of one tween: frame k of it is at progress k/TweenFrames
TweenFrames == 4

(***************************************************************************)
(* Decimal arithmetic on digit sequences                                   *)
(***************************************************************************)
Digits == {"0", "1", "2", "3", "4", "5", "6", "7", "8", "9"}

DigitVal(c) ==
    CASE c = "0" -> 0 [] c = "1" -> 1 [] c = "2" -> 2 [] c = "3" -> 3
      [] c = "4" -> 4 [] c = "5" -> 5 [] c = "6" -> 6 [] c = "7" -> 7
      [] c = "8" -> 8 [] c = "9" -> 9

DigitChar(d) ==
    CASE d = 0 -> "0" [] d = 1 -> "1" [] d = 2 -> "2" [] d = 3 -> "3"
      [] d = 4 -> "4" [] d = 5 -> "5" [] d = 6 -> "6" [] d = 7 -> "7"
      [] d = 8 -> "8" [] d = 9 -> "9"

Zeros(n) == [i \in 1..n |-> 0]

RECURSIVE StripLeadingZeros(_)
StripLeadingZeros(ds) ==
    IF ds # <<>> /\ Head(ds) = 0 THEN StripLeadingZeros(Tail(ds)) ELSE ds

RECURSIVE StripTrailingZeros(_)
StripTrailingZeros(ds) ==
    IF ds # <<>> /\ ds[Len(ds)] = 0
    THEN StripTrailingZeros(SubSeq(ds, 1, Len(ds) - 1))
    ELSE ds

\* length of the longest prefix of s made of digit characters
RECURSIVE DigitRun(_)
DigitRun(s) ==
    IF s # <<>> /\ Head(s) \in Digits THEN 1 + DigitRun(Tail(s)) ELSE 0

ToDigits(s) == [i \in 1..Len(s) |-> DigitVal(s[i])]

ToChars(ds) == [i \in 1..Len(ds) |-> DigitChar(ds[i])]

Drop(s, n) == SubSeq(s, n + 1, Len(s))

\* A JavaScript number: NaN or a decimal, normalised (no leading zero in int,
\* no trailing zero in frac, zero is never negative for comparison).
NaN == [nan |-> TRUE]

Dec(neg, int, frac) ==
    [nan |-> FALSE, neg |-> neg, int |-> StripLeadingZeros(int),
     frac |-> StripTrailingZeros(frac)]

Zero == Dec(FALSE, <<>>, <<>>)

IsZero(x) == ~x.nan /\ x.int = <<>> /\ x.frac = <<>>

\* lexicographic a <= b on digit sequences, the shorter padded with zeros
RECURSIVE LexLeq(_, _)
LexLeq(a, b) ==
    IF a = <<>> THEN TRUE
    ELSE IF b = <<>> THEN StripTrailingZeros(a) = <<>>
    ELSE IF Head(a) < Head(b) THEN TRUE
    ELSE IF Head(a) > Head(b) THEN FALSE
    ELSE LexLeq(Tail(a), Tail(b))

\* magnitude of a <= magnitude of b
MagLeq(a, b) ==
    IF Len(a.int) # Len(b.int) THEN Len(a.int) < Len(b.int)
    ELSE IF a.int # b.int THEN LexLeq(a.int, b.int)
    ELSE LexLeq(a.frac, b.frac)

\* the JavaScript comparison a <= b (false when either side is NaN)
NumLeq(a, b) ==
    IF a.nan \/ b.nan THEN FALSE
    ELSE IF IsZero(a) /\ IsZero(b) THEN TRUE
    ELSE IF a.neg /\ ~b.neg THEN TRUE
    ELSE IF ~a.neg /\ b.neg THEN FALSE
    ELSE IF a.neg THEN MagLeq(b, a)
    ELSE MagLeq(a, b)

(***************************************************************************)
(* Conversions the panel uses                                              *)
(***************************************************************************)
\* the decimal scale of every on-chain amount
DECIMALS == 18

WHITESPACE == {" "}

RECURSIVE SkipSpace(_)
SkipSpace(s) ==
    IF s # <<>> /\ Head(s) \in WHITESPACE THEN SkipSpace(Tail(s)) ELSE s

\* JavaScript parseFloat on a string without exponent part: leading white
\* space is skipped, then the longest prefix sign? digits* (. digits*)? with
\* at least one digit is the value, anything after it is ignored, and no such
\* prefix gives NaN.
parseFloat(str) ==
    LET s0    == SkipSpace(str)
        neg   == s0 # <<>> /\ Head(s0) = "-"
        s1    == IF s0 # <<>> /\ Head(s0) \in {"-", "+"} THEN Tail(s0) ELSE s0
        n     == DigitRun(s1)
        s2    == Drop(s1, n)
        dot   == s2 # <<>> /\ Head(s2) = "."
        m     == IF dot THEN DigitRun(Tail(s2)) ELSE 0
    IN  IF n + m = 0 THEN NaN
        ELSE Dec(neg, ToDigits(SubSeq(s1, 1, n)),
                 IF dot THEN ToDigits(SubSeq(Tail(s2), 1, m)) ELSE <<>>)

\* a failed conversion (the library throws)
Throws == [ok |-> FALSE]

Wei(neg, ds) ==
    LET d == StripLeadingZeros(ds)
    IN  [ok |-> TRUE, neg |-> neg /\ d # <<>>, digits |-> d]

\* ethers.parseUnits(str, decimals): the whole string must match
\* (-?)([0-9]*)\.?([0-9]*) with at least one digit, the fraction is padded
\* with zeros to `decimals` digits and may not carry a non-zero digit beyond
\* them; the result is the integer sign + whole + fraction.
parseUnits(str, decimals) ==
    LET neg   == str # <<>> /\ Head(str) = "-"
        s1    == IF neg THEN Tail(str) ELSE str
        n     == DigitRun(s1)
        s2    == Drop(s1, n)
        s3    == IF s2 # <<>> /\ Head(s2) = "." THEN Tail(s2) ELSE s2
        m     == DigitRun(s3)
        whole == ToDigits(SubSeq(s1, 1, n))
        frac  == ToDigits(s3) \o Zeros(IF m < decimals THEN decimals - m ELSE 0)
    IN  IF m # Len(s3) \/ n + m = 0 THEN Throws
        ELSE IF StripTrailingZeros(Drop(frac, decimals)) # <<>> THEN Throws
        ELSE Wei(neg, whole \o SubSeq(frac, 1, decimals))

\* ethers.formatUnits(value, decimals) of a non-negative integer: the digits
\* are padded on the left to more than `decimals` digits, the point is put
\* `decimals` digits from the right, and both sides are trimmed of zeros but
\* for one digit each ("0.0", "1.5", "0.000001").
formatUnits(wei, decimals) ==
    LET padded == Zeros(IF Len(wei.digits) <= decimals
                        THEN decimals + 1 - Len(wei.digits) ELSE 0)
                    \o wei.digits
        index  == Len(padded) - decimals
        whole  == StripLeadingZeros(SubSeq(padded, 1, index))
        frac   == StripTrailingZeros(Drop(padded, index))
    IN  ToChars(IF whole = <<>> THEN <<0>> ELSE whole) \o <<".">>
          \o ToChars(IF frac = <<>> THEN <<0>> ELSE frac)

\* the number a slot shows for an amount read from a contract
Display(wei) == parseFloat(formatUnits(wei, DECIMALS))

(***************************************************************************)
(* The StakingCard panel: constants and inputs                             *)
(***************************************************************************)
NULL == "null"

INZO_STAKE_ADDRESS == "0x4c26a70c7d3A185f8f43570567C4bE84113765D9"

INZO_USD_ADDRESS == "0xb9AF6E2F6BFc8F9556D3f4867DFD813bB4882d38"

\* the address web3Signer.getAddress() resolves with
ACCOUNT == "0xUser"

\* the smallest earnedRewards that is not claimable (Claim Rewards button)
MIN_CLAIM == Dec(FALSE, <<>>, <<0, 0, 0, 0, 0, 1>>)

\* what the user may type into an amount field
AmountStrings ==
    { <<>>, <<"0">>, <<"-", "5">>, <<"a", "b", "c">>, <<"1", ".", "5">> }

\* what the three queries of a read cycle may return (wei)
BalanceReadings == { Wei(FALSE, <<1, 0, 0, 0>> \o Zeros(18)) }

StakedReadings == { Wei(FALSE, <<1, 0, 0>> \o Zeros(18)) }

\* 0.0000001, 0.000001 and 0.000002 tokens
EarnedReadings ==
    { Wei(FALSE, <<1>> \o Zeros(11)), Wei(FALSE, <<1>> \o Zeros(12)),
      Wei(FALSE, <<2>> \o Zeros(12)) }

\* the number a slot shows for each amount a query may return
Displayed ==
    [wei \in BalanceReadings \cup StakedReadings \cup EarnedReadings
       |-> Display(wei)]

\* a query, a submission or a confirmation that rejects
Rejected == [ok |-> FALSE]

\* error.reason of a rejected submission or confirmation (NULL: none)
Reasons == {NULL, "insufficient allowance"}

Status(message, type) == [message |-> message, type |-> type]

Idle == Status("", "")

Preparing == Status("Preparing transaction...", "info")

\* `Failed: ${error.reason || "Check console"}`
Failed(reason) ==
    Status(CASE reason = NULL -> "Failed: Check console"
             [] reason = "insufficient allowance"
                  -> "Failed: insufficient allowance",
           "error")

Call(contract, fn, args) == [contract |-> contract, fn |-> fn, args |-> args]

\* a handleTx invocation: its arguments and the contract calls it made before
\* its first await
Invocation(action, amountStr, calls) ==
    [action |-> action, amountStr |-> amountStr, calls |-> calls]

NoInvocation == Invocation(NULL, <<>>, <<>>)

\* the outcomes of the three queries of a settled read cycle
Settlement(some, usdBalance, staked, earned) ==
    [some |-> some, usdBalance |-> usdBalance, staked |-> staked,
     earned |-> earned]

NoSettlement == Settlement(FALSE, Rejected, Rejected, Rejected)

\* the error the catch block of handleTx got from a rejected submission or
\* confirmation: its reason field (NULL: none)
Rejection(some, reason) == [some |-> some, reason |-> reason]

NoRejection == Rejection(FALSE, NULL)

VARIABLES
    inzoStakeContract,  \* StakingCard state: the stake-pool handle or NULL
    inzoUSDContract,    \* StakingCard state: the token handle or NULL
    initPc,             \* init(): "unmounted", "pending" (awaiting getSigner),
                        \* "done", "failed"
    inzoUSDBalance,     \* the three displayed slots
    stakedBalance,
    earnedRewards,
    stakeAmount,        \* the two amount input fields
    withdrawAmount,
    loading,            \* the busy flag
    status,             \* the status label
    txs,                \* handleTx executions in flight, oldest first
    cycles,             \* fetchData executions in flight, oldest first
    clearTimers,        \* pending setTimeout callbacks that clear the status
    invoked,            \* the handleTx invocation of the latest step, if any
    settled,            \* the query outcomes of the cycle the latest step
                        \* settled, if any
    caught              \* the rejection the latest step caught, if any

contractVars == <<inzoStakeContract, inzoUSDContract, initPc>>

slotVars == <<inzoUSDBalance, stakedBalance, earnedRewards>>

inputVars == <<stakeAmount, withdrawAmount>>

panelVars == <<inzoStakeContract, inzoUSDContract, initPc, inzoUSDBalance,
               stakedBalance, earnedRewards, stakeAmount, withdrawAmount,
               loading, status, txs, cycles, clearTimers, invoked, settled,
               caught>>

\* One AnimatedNumber instance. Its numbers are integers in units of
\* 10^-precision of the slot.
VARIABLES
    value,          \* the value prop of the latest render
    prevValue,      \* prevValue.current
    textContent,    \* node.textContent of the span
    tweens,         \* animations started by animate() and neither finished
                    \* nor stopped, oldest first
    effectPending,  \* the latest render's effect has not run yet
    mounted,        \* the component is mounted
    emitted         \* the sample onUpdate got in the latest step, if any

tweenVars == <<value, prevValue, textContent, tweens, effectPending, mounted,
               emitted>>

\* The App component
VARIABLES
    userAddress,        \* App state, and the userAddress prop of StakingCard
    appStakeContract,   \* App state inzoStakeContract: the handle or NULL
    appLoading,         \* App state loading
    appStatus,          \* App state status
    tvl,                \* App state tvl
    connect,            \* the connectWallet execution in flight, if any
    answered,           \* what the promise awaited by connectWallet settled
                        \* with in its latest step
    tvlCycles,          \* fetchTVL executions awaiting totalStaked()
    tvlSettled,         \* the outcome of totalStaked() the latest step
                        \* settled, if any
    appMounted,         \* the App is mounted (its 30 s interval is armed)
    panelMounted        \* StakingCard is mounted (its 10 s interval is armed)

appVars == <<userAddress, appStakeContract, appLoading, appStatus, tvl,
             connect, answered, tvlCycles, tvlSettled, appMounted,
             panelMounted>>

vars == <<panelVars, tweenVars, appVars>>

\* StakingCard's useState initial values; init() has not started before the
\* component is rendered
PanelInit ==
    /\ inzoStakeContract = NULL
    /\ inzoUSDContract = NULL
    /\ initPc = "unmounted"
    /\ inzoUSDBalance = Zero
    /\ stakedBalance = Zero
    /\ earnedRewards = Zero
    /\ stakeAmount = <<>>
    /\ withdrawAmount = <<>>
    /\ loading = FALSE
    /\ status = Idle
    /\ txs = <<>>
    /\ cycles = <<>>
    /\ clearTimers = 0
    /\ invoked = NoInvocation
    /\ settled = NoSettlement
    /\ caught = NoRejection

(***************************************************************************)
(* Read cycles                                                             *)
(***************************************************************************)
\* a useState setter of StakingCard called with `new`: React drops the update
\* once the component is unmounted
SetState(new, old) == IF panelMounted THEN new ELSE old

\* fetchData's guard: the cycle is issued only with the address and both
\* contracts set
FetchIssues ==
    userAddress # NULL /\ inzoStakeContract # NULL /\ inzoUSDContract # NULL

\* a fetchData execution awaiting Promise.all; `overtaken` records that a
\* cycle issued after it has settled with values in the meantime
Cycle(waiter) == [waiter |-> waiter, overtaken |-> FALSE]

\* fetchData(): the in-flight cycles after a call by `waiter` (the id of the
\* handleTx execution that awaits it, 0 for the polling effect and timer)
fetchData(waiter) ==
    IF FetchIssues THEN Append(cycles, Cycle(waiter)) ELSE cycles

RemoveAt(seq, i) == SubSeq(seq, 1, i - 1) \o SubSeq(seq, i + 1, Len(seq))

\* a catch that resets the slots
AppliedSlots_zeroOnFailure(usdBalance, staked, earned) ==
    IF usdBalance.ok /\ staked.ok /\ earned.ok
    THEN <<Displayed[usdBalance], Displayed[staked], Displayed[earned]>>
    ELSE <<Zero, Zero, Zero>>

\* the three slots after Promise.all of the queries settled with the
\* outcomes usdBalance, staked, earned
AppliedSlots(usdBalance, staked, earned) ==
    IF usdBalance.ok /\ staked.ok /\ earned.ok
    THEN <<Displayed[usdBalance], Displayed[staked], Displayed[earned]>>
    ELSE <<inzoUSDBalance, stakedBalance, earnedRewards>>

\* init() resumes after getSigner(): both contracts are set, fetchData gets a
\* new identity and the polling effect runs again (clearInterval, fetchData(),
\* setInterval)
InitDone ==
    /\ initPc = "pending"
    /\ initPc' = "done"
    /\ inzoStakeContract' = SetState(INZO_STAKE_ADDRESS, inzoStakeContract)
    /\ inzoUSDContract' = SetState(INZO_USD_ADDRESS, inzoUSDContract)
    /\ cycles' = SetState(Append(cycles, Cycle(0)), cycles)
    /\ invoked' = NoInvocation
    /\ settled' = NoSettlement
    /\ caught' = NoRejection
    /\ UNCHANGED <<tweenVars, appVars>>
    /\ UNCHANGED <<slotVars, inputVars, loading, status, txs, clearTimers>>

\* getSigner() rejects: init() ends with the contracts unset
InitFailed ==
    /\ initPc = "pending"
    /\ initPc' = "failed"
    /\ invoked' = NoInvocation
    /\ settled' = NoSettlement
    /\ caught' = NoRejection
    /\ UNCHANGED <<tweenVars, appVars>>
    /\ UNCHANGED <<inzoStakeContract, inzoUSDContract, slotVars, inputVars,
                   loading, status, txs, cycles, clearTimers>>

\* the 10 s interval fires: fetchData()
Tick ==
    /\ panelMounted
    /\ Len(cycles) < MaxCycles
    /\ cycles' = fetchData(0)
    /\ invoked' = NoInvocation
    /\ settled' = NoSettlement
    /\ caught' = NoRejection
    /\ UNCHANGED <<tweenVars, appVars>>
    /\ UNCHANGED <<contractVars, slotVars, inputVars, loading, status, txs,
                   clearTimers>>

\* the handleTx execution `id` resumes after `await fetchData()`:
\* setLoading(false), and the execution is over
Resumed(id) ==
    [loading |-> IF id = 0 THEN loading ELSE FALSE,
     txs |-> SelectSeq(txs, LAMBDA t : t.id # id)]

\* the cycles in flight once cycle i has settled; `applied`: with values
Overtaking(i, applied) ==
    [k \in 1..(Len(cycles) - 1) |->
       IF k < i
       THEN [cycles[k] EXCEPT !.overtaken = @ \/ applied]
       ELSE cycles[k + 1]]

\* cycle i settles: Promise.all resolves with the three results or rejects
\* with the first failure, which the catch swallows; the handleTx execution
\* awaiting the cycle resumes in the same turn
SettleCycle(i, usdBalance, staked, earned) ==
    LET slots == AppliedSlots(usdBalance, staked, earned)
        after == Resumed(cycles[i].waiter)
        applied == usdBalance.ok /\ staked.ok /\ earned.ok
    IN  /\ inzoUSDBalance' = SetState(slots[1], inzoUSDBalance)
        /\ stakedBalance' = SetState(slots[2], stakedBalance)
        /\ earnedRewards' = SetState(slots[3], earnedRewards)
        /\ cycles' = Overtaking(i, applied)
        /\ loading' = SetState(after.loading, loading)
        /\ txs' = after.txs
        /\ invoked' = NoInvocation
        /\ settled' = Settlement(TRUE, usdBalance, staked, earned)
        /\ caught' = NoRejection
        /\ UNCHANGED <<tweenVars, appVars>>
        /\ UNCHANGED <<contractVars, inputVars, status, clearTimers>>

(***************************************************************************)
(* The write action handleTx                                               *)
(***************************************************************************)
\* the check without the `parseFloat(amountStr) <= 0` half
InvalidAmount_emptyOnly(action, amountStr) ==
    action # "claim" /\ amountStr = <<>>

\* line 256: action !== 'claim' && (!amountStr || parseFloat(amountStr) <= 0)
InvalidAmount(action, amountStr) ==
    action # "claim" /\ (amountStr = <<>> \/ NumLeq(parseFloat(amountStr), Zero))

\* line 257: the amount handed to the contracts (the number 0 for claim)
TxAmount(action, amountStr) ==
    IF action # "claim" THEN parseUnits(amountStr, DECIMALS)
    ELSE Wei(FALSE, <<>>)

\* an approval whose spender is the token itself
FirstCall_wrongSpender(action, amount) ==
    CASE action = "stake"
           -> Call(inzoUSDContract, "approve", <<INZO_USD_ADDRESS, amount>>)
      [] action = "withdraw" -> Call(inzoStakeContract, "withdraw", <<amount>>)
      [] action = "claim" -> Call(inzoStakeContract, "claimReward", <<>>)

\* the first contract call of an action
FirstCall(action, amount) ==
    CASE action = "stake"
           -> Call(inzoUSDContract, "approve", <<INZO_STAKE_ADDRESS, amount>>)
      [] action = "withdraw" -> Call(inzoStakeContract, "withdraw", <<amount>>)
      [] action = "claim" -> Call(inzoStakeContract, "claimReward", <<>>)

NextId == IF txs = <<>> THEN 1 ELSE txs[Len(txs)].id + 1

\* handleTx(action, amountStr, successMsg) up to its first await. A throw
\* before it (invalid amount, parseUnits, a call on an unset contract) lands
\* in the catch, after which setLoading(false) ends the execution.
handleTx(action, amountStr, successMsg) ==
    LET amount == TxAmount(action, amountStr)
        call   == FirstCall(action, amount)
        threw  == \/ InvalidAmount(action, amountStr)
                  \/ ~amount.ok
                  \/ call.contract = NULL
    IN  /\ clearTimers < MaxPendingClears
        /\ IF threw
           THEN /\ status' = Failed(NULL)
                /\ loading' = FALSE
                /\ txs' = txs
                /\ invoked' = Invocation(action, amountStr, <<>>)
           ELSE /\ status' = IF action = "stake"
                             THEN Status("Approving...", "info")
                             ELSE Preparing
                /\ loading' = TRUE
                /\ txs' = Append(txs, [id |-> NextId, action |-> action,
                                       amountStr |-> amountStr,
                                       amount |-> amount,
                                       successMsg |-> successMsg,
                                       fn |-> call.fn, phase |-> "send",
                                       calls |-> <<call>>,
                                       confirmed |-> {}])
                /\ invoked' = Invocation(action, amountStr, <<call>>)
        /\ settled' = NoSettlement
        /\ caught' = NoRejection
        /\ UNCHANGED <<tweenVars, appVars>>
        /\ UNCHANGED <<contractVars, slotVars, inputVars, cycles, clearTimers>>

\* the Stake button without `|| loading`
StakeDisabled_ignoresLoading == stakeAmount = <<>>

\* the Claim Rewards button with `<` for `<=`
ClaimDisabled_strict ==
    (NumLeq(earnedRewards, MIN_CLAIM) /\ earnedRewards # MIN_CLAIM) \/ loading

\* the disabled props of the three buttons
StakeDisabled == stakeAmount = <<>> \/ loading

WithdrawDisabled == withdrawAmount = <<>> \/ loading

ClaimDisabled == NumLeq(earnedRewards, MIN_CLAIM) \/ loading

ClickStake ==
    /\ panelMounted
    /\ ~StakeDisabled
    /\ handleTx("stake", stakeAmount, "Staked successfully!")

ClickWithdraw ==
    /\ panelMounted
    /\ ~WithdrawDisabled
    /\ handleTx("withdraw", withdrawAmount, "Withdrawn successfully!")

ClickClaim ==
    /\ panelMounted
    /\ ~ClaimDisabled
    /\ handleTx("claim", <<"0">>, "Rewards claimed!")

\* onChange of the two inputs
SetStakeAmount(typed) ==
    /\ panelMounted
    /\ typed # stakeAmount
    /\ stakeAmount' = typed
    /\ invoked' = NoInvocation
    /\ settled' = NoSettlement
    /\ caught' = NoRejection
    /\ UNCHANGED <<tweenVars, appVars>>
    /\ UNCHANGED <<contractVars, slotVars, withdrawAmount, loading, status,
                   txs, cycles, clearTimers>>

SetWithdrawAmount(typed) ==
    /\ panelMounted
    /\ typed # withdrawAmount
    /\ withdrawAmount' = typed
    /\ invoked' = NoInvocation
    /\ settled' = NoSettlement
    /\ caught' = NoRejection
    /\ UNCHANGED <<tweenVars, appVars>>
    /\ UNCHANGED <<contractVars, slotVars, stakeAmount, loading, status, txs,
                   cycles, clearTimers>>

ReplaceAt(seq, i, t) == [seq EXCEPT ![i] = t]

\* the catch block returning before setLoading(false)
TxFailed_keepsLoading(i, reason) ==
    /\ status' = SetState(Failed(reason), status)
    /\ loading' = loading
    /\ txs' = RemoveAt(txs, i)
    /\ invoked' = NoInvocation
    /\ settled' = NoSettlement
    /\ caught' = Rejection(TRUE, reason)
    /\ UNCHANGED <<tweenVars, appVars>>
    /\ UNCHANGED <<contractVars, slotVars, inputVars, cycles, clearTimers>>

\* the catch block, then setLoading(false): execution i is over
TxFailed(i, reason) ==
    /\ status' = SetState(Failed(reason), status)
    /\ loading' = SetState(FALSE, loading)
    /\ txs' = RemoveAt(txs, i)
    /\ invoked' = NoInvocation
    /\ settled' = NoSettlement
    /\ caught' = Rejection(TRUE, reason)
    /\ UNCHANGED <<tweenVars, appVars>>
    /\ UNCHANGED <<contractVars, slotVars, inputVars, cycles, clearTimers>>

\* the success block without `await fetchData()`
TxSucceeded_noFetch(i) ==
    /\ status' = Status(txs[i].successMsg, "success")
    /\ clearTimers' = clearTimers + 1
    /\ stakeAmount' = <<>>
    /\ withdrawAmount' = <<>>
    /\ txs' = RemoveAt(txs, i)
    /\ loading' = FALSE
    /\ invoked' = NoInvocation
    /\ settled' = NoSettlement
    /\ caught' = NoRejection
    /\ UNCHANGED <<tweenVars, appVars>>
    /\ UNCHANGED <<contractVars, slotVars, cycles>>

\* lines 270-274: every step succeeded
TxSucceeded(i) ==
    LET t == txs[i]
    IN  /\ status' = SetState(Status(t.successMsg, "success"), status)
        /\ clearTimers' = clearTimers + 1
        /\ stakeAmount' = SetState(<<>>, stakeAmount)
        /\ withdrawAmount' = SetState(<<>>, withdrawAmount)
        /\ cycles' = fetchData(t.id)
        /\ IF FetchIssues
           THEN /\ txs' = ReplaceAt(txs, i, [t EXCEPT !.phase = "fetch"])
                /\ loading' = loading
           ELSE /\ txs' = RemoveAt(txs, i)
                /\ loading' = SetState(FALSE, loading)
        /\ invoked' = NoInvocation
        /\ settled' = NoSettlement
        /\ caught' = NoRejection
        /\ UNCHANGED <<tweenVars, appVars>>
        /\ UNCHANGED <<contractVars, slotVars>>

\* approve(...) awaited without .wait(): stake(amount) follows the submission
SendResolved_noWait(i) ==
    LET t    == txs[i]
        call == Call(inzoStakeContract, "stake", <<t.amount>>)
    IN  /\ t.phase = "send"
        /\ txs' = ReplaceAt(txs, i,
             IF t.fn = "approve"
             THEN [t EXCEPT !.fn = "stake", !.calls = Append(t.calls, call)]
             ELSE [t EXCEPT !.phase = "wait"])
        /\ status' = IF t.fn = "approve" THEN Status("Staking...", "info")
                      ELSE status
        /\ invoked' = NoInvocation
        /\ settled' = NoSettlement
        /\ caught' = NoRejection
        /\ UNCHANGED <<tweenVars, appVars>>
        /\ UNCHANGED <<contractVars, slotVars, inputVars, loading, cycles,
                       clearTimers>>

\* the contract method's promise resolves with the transaction response, on
\* which wait() is called
SendResolved(i) ==
    /\ txs[i].phase = "send"
    /\ txs' = ReplaceAt(txs, i, [txs[i] EXCEPT !.phase = "wait"])
    /\ invoked' = NoInvocation
    /\ settled' = NoSettlement
    /\ caught' = NoRejection
    /\ UNCHANGED <<tweenVars, appVars>>
    /\ UNCHANGED <<contractVars, slotVars, inputVars, loading, status, cycles,
                   clearTimers>>

\* the contract method's promise rejects
SendRejected(i, reason) ==
    /\ txs[i].phase = "send"
    /\ TxFailed(i, reason)

\* wait() resolves: after approve, "Staking..." and stake(amount); after the
\* last step of the action, the success block
WaitResolved(i) ==
    LET t    == txs[i]
        call == Call(inzoStakeContract, "stake", <<t.amount>>)
    IN  /\ t.phase = "wait"
        /\ IF t.fn = "approve"
           THEN /\ status' = SetState(Status("Staking...", "info"), status)
                /\ txs' = ReplaceAt(txs, i,
                     [t EXCEPT !.fn = "stake", !.phase = "send",
                               !.calls = Append(t.calls, call),
                               !.confirmed = t.confirmed \cup {t.fn}])
                /\ invoked' = NoInvocation
                /\ settled' = NoSettlement
                /\ caught' = NoRejection
                /\ UNCHANGED <<tweenVars, appVars>>
                /\ UNCHANGED <<contractVars, slotVars, inputVars, loading,
                               cycles, clearTimers>>
           ELSE TxSucceeded(i)

\* a catch that lets the action go on: stake(amount) after an approve whose
\* confirmation rejected
WaitRejected_continues(i, reason) ==
    LET t    == txs[i]
        call == Call(inzoStakeContract, "stake", <<t.amount>>)
    IN  /\ t.phase = "wait"
        /\ IF t.fn = "approve"
           THEN /\ status' = Status("Staking...", "info")
                /\ txs' = ReplaceAt(txs, i,
                     [t EXCEPT !.fn = "stake", !.phase = "send",
                               !.calls = Append(t.calls, call)])
                /\ invoked' = NoInvocation
                /\ settled' = NoSettlement
                /\ caught' = Rejection(TRUE, reason)
                /\ UNCHANGED <<tweenVars, appVars>>
                /\ UNCHANGED <<contractVars, slotVars, inputVars, loading,
                               cycles, clearTimers>>
           ELSE TxFailed(i, reason)

\* wait() rejects (the transaction reverted or was dropped)
WaitRejected(i, reason) ==
    /\ txs[i].phase = "wait"
    /\ TxFailed(i, reason)

\* the 3 s timeout armed by a successful action fires
ClearStatus ==
    /\ clearTimers > 0
    /\ clearTimers' = clearTimers - 1
    /\ status' = SetState(Idle, status)
    /\ invoked' = NoInvocation
    /\ settled' = NoSettlement
    /\ caught' = NoRejection
    /\ UNCHANGED <<tweenVars, appVars>>
    /\ UNCHANGED <<contractVars, slotVars, inputVars, loading, txs, cycles>>

(***************************************************************************)
(* The App component: connectWallet and the TVL read                       *)
(***************************************************************************)
CORRECT_CHAIN_ID == 420420421

\* a chain the wallet may be on instead
OTHER_CHAIN_ID == 1

\* the code of a wallet_switchEthereumChain error for a chain the wallet
\* does not know
UNRECOGNIZED_CHAIN == 4902

HexChars ==
    <<"0", "1", "2", "3", "4", "5", "6", "7", "8", "9", "a", "b", "c", "d",
      "e", "f">>

RECURSIVE ToHex(_)
ToHex(n) ==
    IF n < 16 THEN <<HexChars[n + 1]>>
    ELSE Append(ToHex(n \div 16), HexChars[(n % 16) + 1])

\* ethers.toQuantity: "0x" and the hexadecimal digits without leading zeros
toQuantity(n) == <<"0", "x">> \o ToHex(n)

networkConfig ==
    [chainId |-> toQuantity(CORRECT_CHAIN_ID),
     chainName |-> "Westend Asset Hub",
     nativeCurrency |-> [name |-> "Westend", symbol |-> "WND", decimals |-> 18],
     rpcUrls |-> <<"https://westend-asset-hub-eth-rpc.polkadot.io/">>]

\* window.talismanEth.request({method, params})
Request(method, params) == [method |-> method, params |-> params]

SwitchRequest ==
    Request("wallet_switchEthereumChain",
            <<[chainId |-> networkConfig.chainId]>>)

AddRequest == Request("wallet_addEthereumChain", <<networkConfig>>)

\* what an awaited promise of connectWallet settles with
Answer(some, ok, code, message, chainId, address) ==
    [some |-> some, ok |-> ok, code |-> code, message |-> message,
     chainId |-> chainId, address |-> address]

NoAnswer == Answer(FALSE, TRUE, 0, "", 0, NULL)

Resolved == Answer(TRUE, TRUE, 0, "", 0, NULL)

OnChain(chainId) == Answer(TRUE, TRUE, 0, "", chainId, NULL)

WithAddress(address) == Answer(TRUE, TRUE, 0, "", 0, address)

Thrown(code, message) == Answer(TRUE, FALSE, code, message, 0, NULL)

\* the errors the wallet or the provider may reject with
WalletErrors ==
    { Thrown(4001, "User rejected the request."),
      Thrown(UNRECOGNIZED_CHAIN, "Unrecognized chain ID.") }

Connecting == Status("Connecting...", "info")

Switching == Status("Switching network...", "info")

Execution(pc, requests) == [pc |-> pc, requests |-> requests]

NoConnect == Execution("idle", <<>>)

\* what totalStaked() may return (wei)
TvlReadings == { Wei(FALSE, <<5, 0, 0, 0>> \o Zeros(18)) }

TvlSettlement(some, totalStaked) == [some |-> some, totalStaked |-> totalStaked]

NoTvlSettlement == TvlSettlement(FALSE, Rejected)

\* App's first render: every useState at its initial value; the effect ran
\* with userAddress unset, so fetchTVL was not called
AppInit ==
    /\ userAddress = NULL
    /\ appStakeContract = NULL
    /\ appLoading = FALSE
    /\ appStatus = Idle
    /\ tvl = Zero
    /\ connect = NoConnect
    /\ answered = NoAnswer
    /\ tvlCycles = 0
    /\ tvlSettled = NoTvlSettlement
    /\ appMounted = TRUE
    /\ panelMounted = FALSE

appFrame == <<userAddress, appStakeContract, tvl, tvlCycles, tvlSettled,
              appMounted, panelMounted>>

\* a useState setter of App called with `new`: React drops the update once
\* the component is unmounted
SetAppState(new, old) == IF appMounted THEN new ELSE old

\* the catch and finally blocks of connectWallet: the execution is over
ConnectFailed(message) ==
    /\ appStatus' = SetAppState(Status(message, "error"), appStatus)
    /\ appLoading' = SetAppState(FALSE, appLoading)
    /\ connect' = NoConnect
    /\ UNCHANGED <<appFrame, panelVars, tweenVars>>

\* connectWallet goes on to the next await
ConnectStep(pc, newStatus, requests) ==
    /\ connect' = Execution(pc, requests)
    /\ appStatus' = SetAppState(newStatus, appStatus)
    /\ appLoading' = appLoading
    /\ UNCHANGED <<appFrame, panelVars, tweenVars>>

\* a click on Connect Talisman Wallet, rendered while userAddress is unset
\* and disabled while loading: connectWallet up to `await enable(...)`
ClickConnect(walletFound) ==
    /\ appMounted
    /\ userAddress = NULL
    /\ ~appLoading
    /\ answered' = NoAnswer
    /\ IF walletFound
       THEN /\ connect' = Execution("enable", <<>>)
            /\ appStatus' = Connecting
            /\ appLoading' = TRUE
            /\ UNCHANGED <<appFrame, panelVars, tweenVars>>
       ELSE ConnectFailed("Talisman wallet not found. Please install it.")

\* talismanWallet.enable('Inzo Finance') settles; then the check of
\* window.talismanEth and provider.getNetwork()
EnableSettled(answer, evmPresent) ==
    /\ connect.pc = "enable"
    /\ answered' = answer
    /\ IF ~answer.ok THEN ConnectFailed(answer.message)
       ELSE IF ~evmPresent
       THEN ConnectFailed("Talisman EVM provider not found.")
       ELSE ConnectStep("network", appStatus, connect.requests)

\* provider.getNetwork() settles; on another chain, the switch request
NetworkSettled(answer) ==
    /\ connect.pc = "network"
    /\ answered' = answer
    /\ IF ~answer.ok THEN ConnectFailed(answer.message)
       ELSE IF answer.chainId # CORRECT_CHAIN_ID
       THEN ConnectStep("switch", Switching,
                        Append(connect.requests, SwitchRequest))
       ELSE ConnectStep("signer", appStatus, connect.requests)

\* the catch of the switch request with the test of the code left out: every
\* switch error is answered with the add request
SwitchSettled_alwaysAdds(answer) ==
    /\ connect.pc = "switch"
    /\ answered' = answer
    /\ IF answer.ok THEN ConnectStep("signer", appStatus, connect.requests)
       ELSE ConnectStep("add", appStatus, Append(connect.requests, AddRequest))

\* wallet_switchEthereumChain settles
SwitchSettled(answer) ==
    /\ connect.pc = "switch"
    /\ answered' = answer
    /\ IF answer.ok THEN ConnectStep("signer", appStatus, connect.requests)
       ELSE IF answer.code = UNRECOGNIZED_CHAIN
       THEN ConnectStep("add", appStatus, Append(connect.requests, AddRequest))
       ELSE ConnectFailed("User rejected network switch.")

\* wallet_addEthereumChain settles
AddSettled(answer) ==
    /\ connect.pc = "add"
    /\ answered' = answer
    /\ IF answer.ok THEN ConnectStep("signer", appStatus, connect.requests)
       ELSE ConnectFailed(answer.message)

\* a rejection of getSigner() that is swallowed
SignerSettled_ignoresFailure(answer) ==
    /\ connect.pc = "signer"
    /\ answered' = answer
    /\ ConnectStep("address", appStatus, connect.requests)

\* provider.getSigner() settles
SignerSettled(answer) ==
    /\ connect.pc = "signer"
    /\ answered' = answer
    /\ IF answer.ok THEN ConnectStep("address", appStatus, connect.requests)
       ELSE ConnectFailed(answer.message)

\* web3Signer.getAddress() settles. With the address: lines 112-114 and the
\* finally block, then the render they cause: StakingCard is mounted, its
\* init() awaits getSigner(), and App's effect runs again and calls
\* fetchTVL().
AddressSettled(answer) ==
    /\ connect.pc = "address"
    /\ answered' = answer
    /\ IF ~answer.ok THEN ConnectFailed(answer.message)
       ELSE /\ userAddress' = SetAppState(answer.address, userAddress)
            /\ appStakeContract' =
                 SetAppState(INZO_STAKE_ADDRESS, appStakeContract)
            /\ appStatus' = SetAppState(Idle, appStatus)
            /\ appLoading' = SetAppState(FALSE, appLoading)
            /\ connect' = NoConnect
            /\ panelMounted' = appMounted
            /\ initPc' = SetAppState("pending", initPc)
            /\ tvlCycles' = SetAppState(tvlCycles + 1, tvlCycles)
            /\ UNCHANGED <<tvl, tvlSettled, appMounted, tweenVars>>
            /\ UNCHANGED <<inzoStakeContract, inzoUSDContract, slotVars,
                           inputVars, loading, status, txs, cycles,
                           clearTimers, invoked, settled, caught>>

\* fetchTVL(): the executions awaiting totalStaked() after a call
fetchTVL == IF appStakeContract # NULL THEN tvlCycles + 1 ELSE tvlCycles

\* the 30 s interval fires: fetchTVL()
TvlTick ==
    /\ appMounted
    /\ tvlCycles < MaxCycles
    /\ tvlCycles' = fetchTVL
    /\ tvlSettled' = NoTvlSettlement
    /\ UNCHANGED <<userAddress, appStakeContract, appLoading, appStatus, tvl,
                   connect, answered, appMounted, panelMounted>>
    /\ UNCHANGED <<panelVars, tweenVars>>

\* totalStaked() settles: setTvl, or the catch that logs
TvlSettle(totalStaked) ==
    /\ tvlCycles > 0
    /\ tvlCycles' = tvlCycles - 1
    /\ tvl' = IF totalStaked.ok THEN SetAppState(Display(totalStaked), tvl)
              ELSE tvl
    /\ tvlSettled' = TvlSettlement(TRUE, totalStaked)
    /\ UNCHANGED <<userAddress, appStakeContract, appLoading, appStatus,
                   connect, answered, appMounted, panelMounted>>
    /\ UNCHANGED <<panelVars, tweenVars>>

\* the root is unmounted: the cleanups of App's and StakingCard's effects
\* call clearInterval; nothing cancels a pending setTimeout
Teardown ==
    /\ appMounted
    /\ appMounted' = FALSE
    /\ panelMounted' = FALSE
    /\ invoked' = NoInvocation
    /\ settled' = NoSettlement
    /\ caught' = NoRejection
    /\ UNCHANGED <<userAddress, appStakeContract, appLoading, appStatus, tvl,
                   connect, answered, tvlCycles, tvlSettled>>
    /\ UNCHANGED <<contractVars, slotVars, inputVars, loading, status, txs,
                   cycles, clearTimers, tweenVars>>

\* the steps of connectWallet
ConnectNext ==
    \/ \E walletFound \in BOOLEAN : ClickConnect(walletFound)
    \/ \E answer \in {Resolved} \cup WalletErrors, evmPresent \in BOOLEAN :
         EnableSettled(answer, evmPresent)
    \/ \E answer \in {OnChain(CORRECT_CHAIN_ID), OnChain(OTHER_CHAIN_ID)}
                         \cup WalletErrors :
         NetworkSettled(answer)
    \/ \E answer \in {Resolved} \cup WalletErrors : SwitchSettled(answer)
    \/ \E answer \in {Resolved} \cup WalletErrors : AddSettled(answer)
    \/ \E answer \in {Resolved} \cup WalletErrors : SignerSettled(answer)
    \/ \E answer \in {WithAddress(ACCOUNT)} \cup WalletErrors :
         AddressSettled(answer)

Next ==
    \/ InitDone
    \/ InitFailed
    \/ Tick
    \/ \E i \in 1..Len(cycles) :
         \E usdBalance \in BalanceReadings \cup {Rejected},
            staked \in StakedReadings \cup {Rejected},
            earned \in EarnedReadings \cup {Rejected} :
           SettleCycle(i, usdBalance, staked, earned)
    \/ \E typed \in AmountStrings : SetStakeAmount(typed)
    \/ \E typed \in AmountStrings : SetWithdrawAmount(typed)
    \/ ClickStake
    \/ ClickWithdraw
    \/ ClickClaim
    \/ \E i \in 1..Len(txs) : SendResolved(i)
    \/ \E i \in 1..Len(txs), reason \in Reasons : SendRejected(i, reason)
    \/ \E i \in 1..Len(txs) : WaitResolved(i)
    \/ \E i \in 1..Len(txs), reason \in Reasons : WaitRejected(i, reason)
    \/ ClearStatus
    \/ ConnectNext

(***************************************************************************)
(* The AnimatedNumber slot                                                 *)
(***************************************************************************)
\* the precision prop of the slot (two decimals: the values are hundredths)
PRECISION == 2

\* the values a parent may pass: 0.00 (useState(0)), 1000.00 and 1523.45
Values == {0, 100000, 152345}

\* framer-motion's "easeOut", cubic-bezier(0, 0, 0.58, 1), in percent at
\* progress k/TweenFrames: with t in hundredths, x(t) = 1.74 t^2 - 0.74 t^3
\* and y(t) = 3 t^2 - 2 t^3; the t of a progress is the first one whose x
\* reaches it.
EaseOut ==
    [k \in 0..TweenFrames |->
       LET t == CHOOSE u \in 0..100 :
                  /\ (17400 * u * u - 74 * u * u * u) * TweenFrames
                        >= k * 100000000
                  /\ \A w \in 0..(u - 1) :
                        (17400 * w * w - 74 * w * w * w) * TweenFrames
                          < k * 100000000
       IN  (300 * t * t - 2 * t * t * t) \div 10000]

\* the sample of frame k of a tween: from + (to - from) * ease(progress)
Sample(from, to, k) == from + ((to - from) * EaseOut[k]) \div 100

RECURSIVE IntDigits(_)
IntDigits(n) == IF n < 10 THEN <<n>> ELSE Append(IntDigits(n \div 10), n % 10)

\* the grouping of en-US: a comma before every three digits from the right
RECURSIVE Grouped(_)
Grouped(chars) ==
    IF Len(chars) <= 3 THEN chars
    ELSE Grouped(SubSeq(chars, 1, Len(chars) - 3)) \o <<",">>
           \o SubSeq(chars, Len(chars) - 2, Len(chars))

\* parseFloat(latest).toLocaleString('en-US', {minimumFractionDigits:
\* precision, maximumFractionDigits: precision}) of n * 10^-precision
toLocaleString(n, precision) ==
    LET mag    == IF n < 0 THEN 0 - n ELSE n
        ds     == IntDigits(mag)
        padded == Zeros(IF Len(ds) <= precision
                        THEN precision + 1 - Len(ds) ELSE 0) \o ds
        index  == Len(padded) - precision
    IN  (IF n < 0 THEN <<"-">> ELSE <<>>)
          \o Grouped(ToChars(SubSeq(padded, 1, index)))
          \o (IF precision > 0 THEN <<".">> \o ToChars(Drop(padded, index))
              ELSE <<>>)

Emission(some, sample, from, to, prior, final) ==
    [some |-> some, sample |-> sample, from |-> from, to |-> to,
     prior |-> prior, final |-> final]

NoEmission == Emission(FALSE, 0, 0, 0, 0, FALSE)

\* animate(to, from, ...): the arguments swapped
animate_swapped(from, to) ==
    [from |-> to, to |-> from, frame |-> 0, latest |-> to, current |-> TRUE]

\* animate(from, to, {duration: 0.8, ease: "easeOut", onUpdate}): a new
\* animation, owned by the effect run that started it
animate(from, to) ==
    [from |-> from, to |-> to, frame |-> 0, latest |-> from, current |-> TRUE]

Superseded(ts) == [i \in 1..Len(ts) |-> [ts[i] EXCEPT !.current = FALSE]]

\* an effect that returns no cleanup
Cleanup_missing(ts, text) == [tweens |-> ts, text |-> text]

\* a cleanup that calls controls.complete(): the animation jumps to its end
\* and hands its target to onUpdate
Cleanup_complete(ts, text) ==
    [tweens |-> SelectSeq(ts, LAMBDA t : ~t.current),
     text |-> IF \E i \in 1..Len(ts) : ts[i].current
              THEN LET i == CHOOSE j \in 1..Len(ts) : ts[j].current
                   IN  toLocaleString(ts[i].to, PRECISION)
              ELSE text]

\* the effect's cleanup, () => controls.stop(): the animation of that effect
\* run is stopped where it is, nothing is written
Cleanup(ts, text) ==
    [tweens |-> SelectSeq(ts, LAMBDA t : ~t.current), text |-> text]

\* the first render of the component with the value v
TweenInit(v) ==
    /\ value = v
    /\ prevValue = v
    /\ textContent = <<>>
    /\ tweens = <<>>
    /\ effectPending = TRUE
    /\ mounted = TRUE
    /\ emitted = NoEmission

\* the parent renders the component with another value; the effect, whose
\* dependencies are [value, precision], is scheduled
Render(v) ==
    /\ mounted
    /\ ~effectPending
    /\ v # value
    /\ value' = v
    /\ effectPending' = TRUE
    /\ emitted' = NoEmission
    /\ UNCHANGED <<prevValue, textContent, tweens, mounted, panelVars, appVars>>

\* the effect without `prevValue.current = value`
RunEffect_keepsPrev ==
    LET cleaned == Cleanup(tweens, textContent)
    IN  /\ mounted
        /\ effectPending
        /\ tweens' = Append(Superseded(cleaned.tweens), animate(prevValue, value))
        /\ textContent' = cleaned.text
        /\ prevValue' = prevValue
        /\ effectPending' = FALSE
        /\ emitted' = NoEmission
        /\ UNCHANGED <<value, mounted, panelVars, appVars>>

\* React runs the effect of the latest render: the cleanup of the previous
\* run, then animate(prevValue.current, value, ...) and
\* prevValue.current = value (the span is rendered, so ref.current is set)
RunEffect ==
    LET cleaned == Cleanup(tweens, textContent)
    IN  /\ mounted
        /\ effectPending
        /\ tweens' = Append(Superseded(cleaned.tweens), animate(prevValue, value))
        /\ textContent' = cleaned.text
        /\ prevValue' = value
        /\ effectPending' = FALSE
        /\ emitted' = NoEmission
        /\ UNCHANGED <<value, mounted, panelVars, appVars>>

\* an animation frame of tween i: onUpdate gets the next sample and writes
\* it into the span; the last frame ends the animation
Frame(i) ==
    LET t      == tweens[i]
        k      == t.frame + 1
        latest == Sample(t.from, t.to, k)
    IN  /\ textContent' = toLocaleString(latest, PRECISION)
        /\ emitted' = Emission(TRUE, latest, t.from, t.to, t.latest,
                               k = TweenFrames)
        /\ tweens' = IF k = TweenFrames THEN RemoveAt(tweens, i)
                     ELSE ReplaceAt(tweens, i,
                                    [t EXCEPT !.frame = k, !.latest = latest])
        /\ UNCHANGED <<value, prevValue, effectPending, mounted, panelVars, appVars>>

\* the component is unmounted: the cleanup of the last effect run
Unmount ==
    LET cleaned == Cleanup(tweens, textContent)
    IN  /\ mounted
        /\ mounted' = FALSE
        /\ effectPending' = FALSE
        /\ tweens' = cleaned.tweens
        /\ textContent' = cleaned.text
        /\ emitted' = NoEmission
        /\ UNCHANGED <<value, prevValue, panelVars, appVars>>

TweenNext ==
    \/ \E v \in Values : Render(v)
    \/ RunEffect
    \/ \E i \in 1..Len(tweens) : Frame(i)
    \/ Unmount

\* the page after load: the connect screen
Init == AppInit /\ PanelInit /\ TweenInit(0)

Spec == Init /\ [][Next]_vars

\* one AnimatedNumber at its first render with any value
TweenSpecInit == AppInit /\ PanelInit /\ \E v \in Values : TweenInit(v)

TweenSpec == TweenSpecInit /\ [][TweenNext]_vars

\* the dashboard of a user who connects and then only watches: App with its
\* TVL read, and the read side of StakingCard
AppNext ==
    \/ ConnectNext
    \/ TvlTick
    \/ \E totalStaked \in TvlReadings \cup {Rejected} : TvlSettle(totalStaked)
    \/ InitDone
    \/ InitFailed
    \/ Tick
    \/ \E i \in 1..Len(cycles) :
         \E usdBalance \in BalanceReadings \cup {Rejected},
            staked \in StakedReadings \cup {Rejected},
            earned \in EarnedReadings \cup {Rejected} :
           SettleCycle(i, usdBalance, staked, earned)

AppSpec == Init /\ [][AppNext]_vars

\* every promise a handler awaits settles in the end: the submission or
\* confirmation a write action awaits, the oldest read cycle in flight, the
\* wallet or provider call connectWallet awaits
TxSettles ==
    \E i \in 1..Len(txs) :
       \/ SendResolved(i)
       \/ WaitResolved(i)
       \/ \E reason \in Reasons : SendRejected(i, reason) \/ WaitRejected(i, reason)

CycleSettles ==
    /\ cycles # <<>>
    /\ \E usdBalance \in BalanceReadings \cup {Rejected},
          staked \in StakedReadings \cup {Rejected},
          earned \in EarnedReadings \cup {Rejected} :
         SettleCycle(1, usdBalance, staked, earned)

ConnectSettles ==
    /\ connect.pc # "idle"
    /\ ConnectNext

\* the inputs of the runs followed to their end: an amount that passes the
\* validation and one that fails it, and one reading of the rewards that
\* enables the Claim Rewards button
LiveAmounts == { <<"0">>, <<"1", ".", "5">> }

LiveEarned == { Wei(FALSE, <<2>> \o Zeros(12)) }

LiveNext ==
    \/ InitDone
    \/ InitFailed
    \/ Tick
    \/ \E i \in 1..Len(cycles) :
         \E usdBalance \in BalanceReadings \cup {Rejected},
            staked \in StakedReadings \cup {Rejected},
            earned \in LiveEarned \cup {Rejected} :
           SettleCycle(i, usdBalance, staked, earned)
    \/ \E typed \in LiveAmounts : SetStakeAmount(typed)
    \/ \E typed \in LiveAmounts : SetWithdrawAmount(typed)
    \/ ClickStake
    \/ ClickWithdraw
    \/ ClickClaim
    \/ \E i \in 1..Len(txs) : SendResolved(i)
    \/ \E i \in 1..Len(txs), reason \in Reasons : SendRejected(i, reason)
    \/ \E i \in 1..Len(txs) : WaitResolved(i)
    \/ \E i \in 1..Len(txs), reason \in Reasons : WaitRejected(i, reason)
    \/ ClearStatus
    \/ ConnectNext

LiveSpec ==
    /\ Init
    /\ [][LiveNext]_vars
    /\ WF_vars(TxSettles)
    /\ WF_vars(CycleSettles)
    /\ WF_vars(ConnectSettles)

\* the page with its root unmounted at any moment
TeardownNext == Next \/ Teardown

TeardownSpec == Init /\ [][TeardownNext]_vars

(***************************************************************************)
(* Properties of the StakingCard panel                                     *)
(***************************************************************************)
Calls(t, fn) == {k \in 1..Len(t.calls) : t.calls[k].fn = fn}

\* C1: in a stake action, stake(amount) is invoked only after the
\* confirmation (wait()) of the approve transaction has resolved, and after
\* the approve call itself.
StakeAfterApproveConfirmed ==
    \A i \in 1..Len(txs) :
        \A k \in Calls(txs[i], "stake") :
            /\ "approve" \in txs[i].confirmed
            /\ \E j \in Calls(txs[i], "approve") : j < k

StakeCalled ==
    \E i \in 1..Len(txs) :
        /\ txs[i].action = "stake"
        /\ Calls(txs[i], "stake") # {}
        /\ txs[i].phase = "wait"

\* a string that is a decimal numeral (sign? digits* (. digits*)? with a
\* digit) of a value above zero
IsPositiveReal(str) ==
    LET s1  == IF str # <<>> /\ Head(str) \in {"-", "+"} THEN Tail(str) ELSE str
        n   == DigitRun(s1)
        s2  == Drop(s1, n)
        s3  == IF s2 # <<>> /\ Head(s2) = "." THEN Tail(s2) ELSE s2
    IN  /\ DigitRun(s3) = Len(s3)
        /\ n + Len(s3) > 0
        /\ ~(str # <<>> /\ Head(str) = "-")
        /\ \E k \in 1..Len(str) : str[k] \in Digits \ {"0"}

\* C2: a stake or withdraw invoked with an amount string that is not a
\* positive real number makes no contract call, leaves no execution in flight
\* that could make one, and ends the same turn with the status error.
InvalidAmountRejected ==
    (invoked.action \in {"stake", "withdraw"}
        /\ ~IsPositiveReal(invoked.amountStr))
    => /\ invoked.calls = <<>>
       /\ txs = <<>>
       /\ status.type = "error"

InvalidAmountTried ==
    /\ invoked.action \in {"stake", "withdraw"}
    /\ invoked.amountStr \in {<<"0">>, <<"-", "5">>, <<"a", "b", "c">>}
    /\ inzoStakeContract # NULL
    /\ inzoUSDContract # NULL
    /\ status.type = "error"

\* C3 (as claimed): when a read cycle settles with at least one query failed
\* and at least one succeeded, each failed query's slot keeps its value and
\* each succeeded query's slot shows the newly fetched value.
FailureIsolatedPerSlot ==
    [][(settled'.some
          /\ ~(settled'.usdBalance.ok /\ settled'.staked.ok /\ settled'.earned.ok)
          /\ (settled'.usdBalance.ok \/ settled'.staked.ok \/ settled'.earned.ok))
       => /\ inzoUSDBalance' = IF settled'.usdBalance.ok
                               THEN Display(settled'.usdBalance)
                               ELSE inzoUSDBalance
          /\ stakedBalance' = IF settled'.staked.ok
                              THEN Display(settled'.staked)
                              ELSE stakedBalance
          /\ earnedRewards' = IF settled'.earned.ok
                              THEN Display(settled'.earned)
                              ELSE earnedRewards]_vars

\* C4: at most one handleTx execution of the panel is in flight, and the
\* busy flag is set while it is.
OneTxAtATime ==
    /\ Len(txs) <= 1
    /\ txs # <<>> => loading

\* an execution awaits its confirmation while an amount is typed in
TxInFlightWithAmount ==
    /\ Len(txs) = 1
    /\ txs[1].phase = "wait"
    /\ loading
    /\ stakeAmount # <<>>
    /\ withdrawAmount # <<>>

\* C5 (as claimed): once the status is error, only a new handleTx invocation
\* changes it.
ErrorPersistsUntilNextTx ==
    [][(status.type = "error" /\ invoked'.action = NULL)
       => status' = status]_vars

\* C6: claimReward() is called only when earnedRewards is above 0.000001.
ClaimOnlyAboveMinimum ==
    (\E k \in 1..Len(invoked.calls) : invoked.calls[k].fn = "claimReward")
    => ~NumLeq(earnedRewards, MIN_CLAIM)

ClaimCalled ==
    /\ invoked.action = "claim"
    /\ invoked.calls = <<Call(INZO_STAKE_ADDRESS, "claimReward", <<>>)>>
    /\ earnedRewards = Display(Wei(FALSE, <<2>> \o Zeros(12)))

\* C10: the step in which the last confirmation of a write action resolves
\* (the one that arms the auto-clear timeout) sets the status to success with
\* the message of the action, empties both amount fields and issues a read
\* cycle that the execution awaits, with the busy flag still set; and the
\* busy flag stays set as long as that cycle is in flight.
SuccessMessage(action) ==
    CASE action = "stake" -> "Staked successfully!"
      [] action = "withdraw" -> "Withdrawn successfully!"
      [] action = "claim" -> "Rewards claimed!"

SuccessStep ==
    clearTimers' = clearTimers + 1
    => \E i \in 1..Len(txs) :
         /\ txs[i].phase = "wait"
         /\ status' = Status(SuccessMessage(txs[i].action), "success")
         /\ stakeAmount' = <<>>
         /\ withdrawAmount' = <<>>
         /\ cycles' = Append(cycles, Cycle(txs[i].id))
         /\ loading'
         /\ \E j \in 1..Len(txs') :
              txs'[j].id = txs[i].id /\ txs'[j].phase = "fetch"

BusyWhileRefetching ==
    /\ \A i \in 1..Len(txs) :
         txs[i].phase = "fetch"
         => loading /\ \E c \in 1..Len(cycles) : cycles[c].waiter = txs[i].id
    /\ ~loading => \A c \in 1..Len(cycles) : cycles[c].waiter = 0

SuccessThenImmediateRefetch ==
    [][SuccessStep /\ BusyWhileRefetching']_vars

Refetching ==
    /\ \E i \in 1..Len(txs) : txs[i].phase = "fetch"
    /\ status.type = "success"
    /\ loading

\* C11: a step of a write action that rejects, the submission or the
\* confirmation, ends the execution: it makes no further contract call, the
\* status becomes the error built from the rejection's reason ("Check
\* console" without one), both amount fields keep their text, no success
\* timeout is armed and no read cycle is issued.
FailureAborts ==
    [][caught'.some
       => /\ \E i \in 1..Len(txs) :
               /\ txs[i].phase \in {"send", "wait"}
               /\ txs' = RemoveAt(txs, i)
          /\ status' = Status(IF caught'.reason = NULL
                              THEN "Failed: Check console"
                              ELSE "Failed: insufficient allowance",
                              "error")
          /\ stakeAmount' = stakeAmount
          /\ withdrawAmount' = withdrawAmount
          /\ clearTimers' = clearTimers
          /\ cycles' = cycles]_vars

ApproveRejected ==
    /\ caught.some
    /\ caught.reason = "insufficient allowance"
    /\ status.type = "error"
    /\ stakeAmount # <<>>
    /\ txs = <<>>

\* C19: the calls of a stake action are approve(spender, amount) on the
\* token, with the stake pool's address as spender, and then at most one
\* stake(amount) on the stake pool, both with one and the same amount: the
\* integer that, read back with 18 decimals, is the number typed.
ApproveMatchesStake ==
    \A i \in 1..Len(txs) :
       txs[i].action = "stake"
       => LET t == txs[i]
              a == t.calls[1].args[2]
          IN  /\ Len(t.calls) \in {1, 2}
              /\ t.calls[1].contract = INZO_USD_ADDRESS
              /\ t.calls[1].fn = "approve"
              /\ Len(t.calls[1].args) = 2
              /\ t.calls[1].args[1] = INZO_STAKE_ADDRESS
              /\ a.ok
              /\ Display(a) = parseFloat(t.amountStr)
              /\ Len(t.calls) = 2
                 => t.calls[2]
                      = Call(INZO_STAKE_ADDRESS, "stake", <<a>>)

StakeSentAfterApprove ==
    \E i \in 1..Len(txs) :
       /\ txs[i].action = "stake"
       /\ Len(txs[i].calls) = 2
       /\ txs[i].calls[2].args[1].digits = <<1, 5>> \o Zeros(17)

\* C12: once the root is unmounted no timer of App or StakingCard fires: no
\* pending success timeout runs its callback, and neither interval issues a
\* read (fetchData of the 10 s interval, fetchTVL of the 30 s interval).
NoTimerFiresAfterTeardown ==
    [][~appMounted
       => /\ clearTimers' >= clearTimers
          /\ ~(/\ Len(cycles') > Len(cycles)
               /\ cycles'[Len(cycles')].waiter = 0)
          /\ tvlCycles' <= tvlCycles]_vars

\* C13: a read cycle that fails changes none of the displayed values and no
\* status: a fetchData whose Promise.all rejects leaves inzoUSDBalance,
\* stakedBalance and earnedRewards as they were, a fetchTVL whose
\* totalStaked() rejects leaves tvl as it was; after either, the interval is
\* still armed and the guard of the read still passes, so that the next tick
\* issues the queries again.
FetchDataFailed ==
    /\ Len(cycles') < Len(cycles)
    /\ settled'.some
    /\ ~(settled'.usdBalance.ok /\ settled'.staked.ok /\ settled'.earned.ok)

FetchTvlFailed ==
    /\ tvlCycles' < tvlCycles
    /\ tvlSettled'.some
    /\ ~tvlSettled'.totalStaked.ok

FailedReadKeepsValues ==
    [][/\ FetchDataFailed
          => /\ UNCHANGED <<slotVars, tvl, status, appStatus>>
             /\ panelMounted'
             /\ FetchIssues'
       /\ FetchTvlFailed
          => /\ UNCHANGED <<slotVars, tvl, status, appStatus>>
             /\ appMounted'
             /\ appStakeContract' # NULL]_vars

FailedReadsAfterValues ==
    /\ settled.some
    /\ ~settled.earned.ok
    /\ inzoUSDBalance # Zero
    /\ tvlSettled.some
    /\ ~tvlSettled.totalStaked.ok
    /\ tvl # Zero

\* the read cycle the step settles is cycle i
Settles(i) ==
    /\ settled'.some
    /\ Len(cycles') = Len(cycles) - 1
    /\ \A k \in 1..Len(cycles') :
         cycles'[k].waiter = cycles[IF k < i THEN k ELSE k + 1].waiter

\* C18: a read cycle that settles after a cycle issued later than it has
\* already settled with values does not overwrite those values: the three
\* slots stay as the later-issued cycle left them. Stated for the step in
\* which the overtaken cycle is the only one still in flight.
StaleCycleNeverOverwrites ==
    [][\A i \in 1..Len(cycles) :
         (cycles[i].overtaken /\ Settles(i) /\ Len(cycles) = 1)
         => UNCHANGED slotVars]_vars

(***************************************************************************)
(* Properties of connectWallet                                             *)
(***************************************************************************)
\* the request of the latest step, if it made one
Requested(method) ==
    /\ Len(connect'.requests) = Len(connect.requests) + 1
    /\ connect'.requests[Len(connect'.requests)].method = method

\* C14: when the switch request rejects with code 4902, connectWallet
\* requests wallet_addEthereumChain with the static descriptor (chain id
\* 0x190f1b45) and, once that resolves, goes on to the signer; when it
\* rejects with any other code, no add request is made and the attempt ends
\* with the error status "User rejected network switch.". The add request
\* is made in no other situation.
SwitchFallback ==
    [][/\ (connect.pc = "switch" /\ connect' # connect /\ ~answered'.ok)
          => IF answered'.code = 4902
             THEN /\ Requested("wallet_addEthereumChain")
                  /\ connect'.requests[Len(connect'.requests)].params
                       = <<[chainId |-> <<"0", "x", "1", "9", "0", "f", "1",
                                         "b", "4", "5">>,
                            chainName |-> "Westend Asset Hub",
                            nativeCurrency |-> [name |-> "Westend",
                                                symbol |-> "WND",
                                                decimals |-> 18],
                            rpcUrls |-> <<"https://westend-asset-hub-eth-rpc.polkadot.io/">>]>>
                  /\ connect'.pc = "add"
                  /\ appLoading'
                  /\ appStatus'.type # "error"
             ELSE /\ connect' = NoConnect
                  /\ appStatus' = Status("User rejected network switch.",
                                         "error")
       /\ Requested("wallet_addEthereumChain")
          => connect.pc = "switch" /\ ~answered'.ok /\ answered'.code = 4902
       /\ (connect.pc = "add" /\ connect' # connect /\ answered'.ok)
          => connect'.pc = "signer" /\ appLoading']_vars

ChainAdded ==
    /\ connect.pc = "signer"
    /\ Len(connect.requests) = 2
    /\ connect.requests[2].method = "wallet_addEthereumChain"
    /\ appLoading

\* the message of the error the catch of connectWallet gets when the step at
\* `pc` ends the attempt
FailureMessage(pc, answer) ==
    IF answer.ok THEN "Talisman EVM provider not found."
    ELSE IF pc = "switch" THEN "User rejected network switch."
    ELSE answer.message

\* C17: a connect attempt ends at the first step that fails (no wallet, a
\* rejected enable, no EVM provider, a rejected network query, switch, add,
\* signer or address request; only the switch rejected with 4902 goes on):
\* userAddress and the stake contract stay unset, the status is the error
\* with the failure's message and loading is false. userAddress is set only
\* by the step in which getAddress() resolved, in an attempt all of whose
\* steps succeeded, and together with the contract handle.
ConnectAllOrNothing ==
    [][/\ (connect.pc # "idle" /\ connect'.pc = "idle")
          => /\ ~appLoading'
             /\ IF connect.pc = "address" /\ answered'.ok
                THEN /\ userAddress' = answered'.address
                     /\ appStakeContract' = INZO_STAKE_ADDRESS
                     /\ appStatus' = Idle
                ELSE /\ userAddress' = NULL
                     /\ appStakeContract' = NULL
                     /\ appStatus' = Status(FailureMessage(connect.pc,
                                                           answered'),
                                            "error")
       /\ (/\ connect.pc # "idle"
           /\ connect' # connect
           /\ ~answered'.ok
           /\ ~(connect.pc = "switch" /\ answered'.code = 4902))
          => connect' = NoConnect /\ userAddress' = NULL
       /\ (connect.pc = "idle" /\ connect'.pc = "idle"
             /\ appStatus' # appStatus)
          => /\ appStatus' = Status("Talisman wallet not found. Please install it.",
                                    "error")
             /\ ~appLoading'
             /\ userAddress' = NULL
             /\ appStakeContract' = NULL
       /\ (userAddress' = NULL) <=> (appStakeContract' = NULL)
       /\ userAddress' # userAddress
          => /\ userAddress = NULL
             /\ connect.pc = "address"
             /\ answered'.ok]_vars

ConnectRejected ==
    /\ connect.pc = "idle"
    /\ answered.some
    /\ ~answered.ok
    /\ appStatus = Status("User rejected the request.", "error")
    /\ ~appLoading
    /\ userAddress = NULL

\* C15: whenever a write action or a connect attempt has set its busy flag,
\* the flag is cleared again once the promises it awaits have settled,
\* whichever of them resolve and whichever reject.
LoadingCleared ==
    /\ loading ~> ~loading
    /\ appLoading ~> ~appLoading

ClearedAfterFailure ==
    /\ ~loading
    /\ caught.some
    /\ userAddress # NULL

(***************************************************************************)
(* Properties of the AnimatedNumber slot                                   *)
(***************************************************************************)
ValueTexts == {toLocaleString(v, PRECISION) : v \in Values}

\* C7: at most one tween is active on the slot, it is the one the latest
\* effect run started, and once the effect of a render has run it animates
\* towards the value of that render.
OneTweenPerSlot ==
    /\ Len(tweens) <= 1
    /\ \A i \in 1..Len(tweens) :
         /\ tweens[i].current
         /\ (mounted /\ ~effectPending) => tweens[i].to = value

\* a tween replaced another one that had written part of its way
TweenReplacedMidway ==
    /\ Len(tweens) = 1
    /\ tweens[1].frame = 0
    /\ tweens[1].from # tweens[1].to
    /\ textContent # <<>>
    /\ textContent \notin ValueTexts

\* C8: every sample lies between the start and the target of its tween, is at
\* least as close to the target as the sample before it, and the last sample
\* of a tween that runs to its end is the target: the value requested by the
\* latest effect run, which the slot then shows.
TweenConverges ==
    emitted.some
    => /\ IF emitted.from <= emitted.to
          THEN /\ emitted.from <= emitted.prior
               /\ emitted.prior <= emitted.sample
               /\ emitted.sample <= emitted.to
          ELSE /\ emitted.to <= emitted.sample
               /\ emitted.sample <= emitted.prior
               /\ emitted.prior <= emitted.from
       /\ emitted.final
          => /\ emitted.sample = emitted.to
             /\ emitted.sample = prevValue
             /\ textContent = toLocaleString(prevValue, PRECISION)

\* the tween from 1000.00 to 1523.45 has run to its end
TweenSettled ==
    /\ emitted.some
    /\ emitted.final
    /\ emitted.from = 100000
    /\ emitted.sample = 152345
    /\ textContent = <<"1", ",", "5", "2", "3", ".", "4", "5">>

\* a step in which an active tween is cancelled: the effect of a new render
\* runs, or the component is unmounted
TweenCancelled ==
    /\ tweens # <<>>
    /\ (effectPending /\ ~effectPending') \/ (mounted /\ ~mounted')

\* C9: cancelling a tween leaves the text of the slot as it is, and the
\* cancelled tween is no longer among the animations that write: only a
\* tween that has not yet written may be active after the step, and none
\* after an unmount.
CancelKeepsText ==
    [][TweenCancelled
       => /\ textContent' = textContent
          /\ \A i \in 1..Len(tweens') :
               /\ mounted'
               /\ tweens'[i].current
               /\ tweens'[i].frame = 0]_vars

\* the component was unmounted while its tween was part of its way
UnmountedMidway ==
    /\ ~mounted
    /\ tweens = <<>>
    /\ textContent # <<>>
    /\ textContent \notin ValueTexts

\* C16: the tween an effect run starts goes from prevValue, the value of the
\* effect run before it, to the value of the latest render, whatever text the
\* slot shows at that moment; the effect run leaves prevValue equal to that
\* value, and its tween is the only one: targets are not queued.
TweenStartsFromPrevious ==
    [][(effectPending /\ ~effectPending' /\ mounted')
       => /\ tweens' # <<>>
          /\ tweens'[Len(tweens')].from = prevValue
          /\ tweens'[Len(tweens')].to = value
          /\ tweens'[Len(tweens')].latest = prevValue
          /\ prevValue' = value
          /\ Len(tweens') = 1]_vars

\* a tween from 1000.00 to 0 has started while the slot shows a number the
\* tween from 0 to 1000.00 got to
RestartedFromTarget ==
    /\ Len(tweens) = 1
    /\ tweens[1].frame = 0
    /\ tweens[1].from = 100000
    /\ tweens[1].to = 0
    /\ prevValue = 0
    /\ textContent # <<>>
    /\ textContent \notin ValueTexts

====
